---------------------------- MODULE Spec2Model ----------------------------
(***************************************************************************)
(* O3METER (src/O3METER.py): hue <=> ozone-scale conversion, the mean      *)
(* colour of the whole image / of a selected region, and the event flow of *)
(* the window (open file, mouse selection, worker thread, progress dialog, *)
(* result slots, log).                                                     *)
(*                                                                         *)
(* An image is kept as horizontal bands of identical pixels:               *)
(*   [w |-> width, bands |-> << [px |-> <<r,g,b>>, h |-> rows >>, ... >>]   *)
(* every sum, count and mean below is exact on such images.                *)
(***************************************************************************)
EXTENDS Integers, Sequences, FiniteSets, TLC

(***************************************************************************)
(* Bounds of the model                                                     *)
(***************************************************************************)
MaxLog == 2
MaxBands == 2
MaxImg == 3
MaxDisp == 3
MaxOut == 2

(***************************************************************************)
(* Program constants                                                       *)
(***************************************************************************)
DarkThreshold == 150
BrightThreshold == 250
MinPixels == 100
HueMax == 359

(***************************************************************************)
(* HueScale                                                                *)
(***************************************************************************)
abs(x) == IF x < 0 THEN -x ELSE x

hueToScale_strict(hue) ==
    IF hue < 60 THEN abs(hue - 60) ELSE abs(hue - 359) + 61

hueToScale(hue) ==
    IF hue <= 60 THEN abs(hue - 60) ELSE abs(hue - 359) + 61

scaleToHue(scale) == hueToScale(scale)

(***************************************************************************)
(* QColor(r, g, b).hue(): Qt's RGB -> HSV conversion.  A triple with a     *)
(* channel outside 0..255 makes an invalid colour, whose hue() is 0; an    *)
(* achromatic colour (max = min) has hue() = -1; otherwise the hue is kept *)
(* in hundredths of a degree, rounded, and hue() divides it by 100.        *)
(***************************************************************************)
Max2(a, b) == IF a >= b THEN a ELSE b
Min2(a, b) == IF a <= b THEN a ELSE b
Max3(a, b, c) == Max2(Max2(a, b), c)
Min3(a, b, c) == Min2(Min2(a, b), c)

\* qRound of the non-negative rational n / d
RoundDiv(n, d) == (2 * n + d) \div (2 * d)

\* Python's int(n / d) for d > 0: truncation toward zero
TruncDiv(n, d) == IF n >= 0 THEN n \div d ELSE -((-n) \div d)

QColorValid(r, g, b) ==
    /\ r \in 0..255
    /\ g \in 0..255
    /\ b \in 0..255

QColorHue(r, g, b) ==
    IF ~QColorValid(r, g, b) THEN 0
    ELSE LET max == Max3(r, g, b)
             min == Min3(r, g, b)
             delta == max - min
             sixth == IF r = max THEN g - b
                      ELSE IF g = max THEN 2 * delta + (b - r)
                      ELSE 4 * delta + (r - g)
             turned == IF sixth < 0 THEN sixth + 6 * delta ELSE sixth
         IN  IF delta = 0 THEN -1
             ELSE RoundDiv(6000 * turned, delta) \div 100

(***************************************************************************)
(* Images                                                                  *)
(***************************************************************************)
NoImage == [w |-> 0, bands |-> << >>]

RECURSIVE HeightFrom(_, _)
HeightFrom(img, i) ==
    IF i > Len(img.bands) THEN 0
    ELSE img.bands[i].h + HeightFrom(img, i + 1)

Height(img) == HeightFrom(img, 1)

\* newImage.width(), newImage.height()
ImgSize(img) == <<img.w, Height(img)>>

\* the pixel of row y (0-based) of the buffer; every column holds the same
RECURSIVE RowPxFrom(_, _, _)
RowPxFrom(img, i, y) ==
    IF y < img.bands[i].h THEN img.bands[i].px
    ELSE RowPxFrom(img, i + 1, y - img.bands[i].h)

RowPx(img, y) == RowPxFrom(img, 1, y)

\* numpy.fmax(numpy.fmax(red, green), blue) of one pixel
maxc(px) == Max3(px[1], px[2], px[3])

(***************************************************************************)
(* CalculationThread.computeAll                                            *)
(***************************************************************************)
\* numpy.sum(numpy.where(values < t, channel c, 0))
RECURSIVE SumWhereFrom(_, _, _, _)
SumWhereFrom(img, t, c, i) ==
    IF i > Len(img.bands) THEN 0
    ELSE (IF maxc(img.bands[i].px) < t
          THEN img.bands[i].px[c] * img.w * img.bands[i].h
          ELSE 0) + SumWhereFrom(img, t, c, i + 1)

SumWhere(img, t, c) == SumWhereFrom(img, t, c, 1)

\* numpy.count_nonzero(rvals), rvals = numpy.where(values < t, redPixels, 0):
\* the pixels below the threshold whose red channel is not zero
RECURSIVE CountNonzeroFrom(_, _, _)
CountNonzeroFrom(img, t, i) ==
    IF i > Len(img.bands) THEN 0
    ELSE (IF maxc(img.bands[i].px) < t /\ img.bands[i].px[1] # 0
          THEN img.w * img.bands[i].h
          ELSE 0) + CountNonzeroFrom(img, t, i + 1)

CountNonzero(img, t) == CountNonzeroFrom(img, t, 1)

\* "Workaround for too bright pictures"
Relaxed(img) == CountNonzero(img, DarkThreshold) < MinPixels

ThresholdUsed(img) == IF Relaxed(img) THEN BrightThreshold ELSE DarkThreshold

\* nvals at line 146, the divisor of the three means
Nvals(img) == CountNonzero(img, ThresholdUsed(img))

\* int(numpy.asscalar(numpy.sum(cvals) / nvals)), for nvals > 0
MeanAll(img, c) == SumWhere(img, ThresholdUsed(img), c) \div Nvals(img)

\* The outcome of computeAll: with nvals = 0 the quotient is nan and int()
\* raises, nothing is emitted; otherwise the value emitted.
computeAll(img) ==
    IF Nvals(img) = 0
    THEN [raised |-> TRUE, mean |-> <<0, 0, 0>>, value |-> 0]
    ELSE LET m == <<MeanAll(img, 1), MeanAll(img, 2), MeanAll(img, 3)>>
         IN  [raised |-> FALSE, mean |-> m,
              value |-> hueToScale(QColorHue(m[1], m[2], m[3]))]

(***************************************************************************)
(* CalculationThread.computeRegion                                         *)
(***************************************************************************)
\* xo, xd, yo, yd of lines 158-161; points and sizes are <<x, y>>, <<w, h>>
RegionRect(origin, destination, imgSize, lsize) ==
    [xo |-> TruncDiv(Min2(origin[1], destination[1]) * imgSize[1], lsize[1]),
     xd |-> TruncDiv(Max2(origin[1], destination[1]) * imgSize[1], lsize[1]) + 1,
     yo |-> TruncDiv(Min2(origin[2], destination[2]) * imgSize[2], lsize[2]),
     yd |-> TruncDiv(Max2(origin[2], destination[2]) * imgSize[2], lsize[2]) + 1]

\* numpy's reading of one bound of a slice over n elements: a negative index
\* counts from the end, and the result is clipped to 0..n
SliceBound(i, n) == IF i < 0 THEN Max2(i + n, 0) ELSE Min2(i, n)

\* the indices arr[a:b] selects out of n
SliceIdx(a, b, n) == SliceBound(a, n) .. (SliceBound(b, n) - 1)

RECURSIVE SumRows(_, _, _)
SumRows(img, rows, c) ==
    IF rows = {} THEN 0
    ELSE LET y == CHOOSE r \in rows : TRUE
         IN  RowPx(img, y)[c] + SumRows(img, rows \ {y}, c)

\* int(numpy.asscalar(channel[yo:yd, xo:xd].mean())), for a non-empty slice
MeanRegion(img, rect, c) ==
    LET rows == SliceIdx(rect.yo, rect.yd, Height(img))
        cols == SliceIdx(rect.xo, rect.xd, img.w)
    IN  (SumRows(img, rows, c) * Cardinality(cols))
            \div (Cardinality(rows) * Cardinality(cols))

\* The outcome of computeRegion: the mean of an empty slice is nan and int()
\* raises, nothing is emitted; otherwise the value emitted.
computeRegion(img, origin, destination, imgSize, lsize) ==
    LET rect == RegionRect(origin, destination, imgSize, lsize)
        rows == SliceIdx(rect.yo, rect.yd, Height(img))
        cols == SliceIdx(rect.xo, rect.xd, img.w)
    IN  IF rows = {} \/ cols = {}
        THEN [raised |-> TRUE, mean |-> <<0, 0, 0>>, value |-> 0]
        ELSE LET m == <<MeanRegion(img, rect, 1), MeanRegion(img, rect, 2),
                        MeanRegion(img, rect, 3)>>
             IN  [raised |-> FALSE, mean |-> m,
                  value |-> hueToScale(QColorHue(m[1], m[2], m[3]))]

(***************************************************************************)
(* The files the user can pick, and what decoding each yields (NoImage: a  *)
(* file the image reader cannot read).                                     *)
(***************************************************************************)
Dark == <<120, 60, 30>>
White == <<255, 255, 255>>
Yellow == <<255, 255, 0>>
Gray == <<100, 100, 100>>
Green == <<30, 100, 20>>
Pale == <<200, 200, 200>>
Navy == <<0, 20, 140>>

Files == {"strip.jpg", "yellow.png", "shot.cr2", "broken.jpg"}

Content(f) ==
    CASE f = "strip.jpg" ->
             [w |-> 10, bands |-> <<[px |-> White, h |-> 8], [px |-> Dark, h |-> 12]>>]
      [] f = "yellow.png" -> [w |-> 10, bands |-> <<[px |-> Yellow, h |-> 10]>>]
      [] f = "shot.cr2" -> [w |-> 4, bands |-> <<[px |-> Gray, h |-> 30]>>]
      [] OTHER -> NoImage

\* fileName.lower().endswith('.cr2')
IsRaw(f) == f = "shot.cr2"

\* sizes of the scroll area's viewport when the image is fitted to it
Viewports == {<<5, 10>>}

(***************************************************************************)
(* State                                                                   *)
(***************************************************************************)
VARIABLES
    currentFile,  \* MainWindow.currentFile ("" before the first openf)
    title,        \* the window's file path / title
    lcd,          \* the value the QLCDNumber displays
    swatch,       \* HSV hue of the colour widget's background (-1: white)
    pointer,      \* ScaleWidget.color (NoPointer before the first update)
    statusMsg,    \* the status bar's message, <<kind, file>>
    visible,      \* scroll area and readout panel are shown
    arr,          \* SelectableImage.arr, also the pixmap shown
    lsize,        \* SelectableImage.size(), the displayed size
    origin,       \* SelectableImage.origin
    pressed,      \* a mouse button is held down over the image
    band,         \* the QRubberBand: made, shown, geometry
    threads,      \* the CalculationThreads whose handler waits in progress.exec()
    queue,        \* calculationFinished emissions queued to the GUI thread
    log,          \* the lines appended to ozone.log
    crashed,      \* the process has been aborted
    conv          \* a hue taken through hueToScale and scaleToHue

vars == <<currentFile, title, lcd, swatch, pointer, statusMsg, visible, arr,
          lsize, origin, pressed, band, threads, queue, log, crashed, conv>>

ui == <<currentFile, title, lcd, swatch, pointer, statusMsg, visible, arr,
        lsize, origin, pressed, band>>

NoPointer == -1

NoConv == [pc |-> "idle", hue |-> 0, scale |-> 0, back |-> 0]

Init ==
    /\ currentFile = ""
    /\ title = ""
    /\ lcd = 0
    /\ swatch = QColorHue(255, 255, 255)
    /\ pointer = NoPointer
    /\ statusMsg = <<"", "">>
    /\ visible = FALSE
    /\ arr = NoImage
    /\ lsize = <<0, 0>>
    /\ origin = <<0, 0>>
    /\ pressed = FALSE
    /\ band = [made |-> FALSE, shown |-> FALSE, rect |-> <<0, 0, 0, 0>>]
    /\ threads = << >>
    /\ queue = << >>
    /\ log = << >>
    /\ crashed = FALSE
    /\ conv = NoConv

(***************************************************************************)
(* Event loop                                                              *)
(***************************************************************************)
\* progress.exec() opens an application-modal dialog: while a handler waits
\* in it, the main window and the image receive no input
ModalOpen_never == FALSE

ModalOpen == threads # << >>

\* The GUI thread takes a new user event: no modal dialog, and the queued
\* emissions posted earlier have been delivered
UiFree == ~crashed /\ ~ModalOpen /\ queue = << >>

\* An exception leaves a slot or run(): the binding aborts the process
\* (qFatal) or, in older releases, prints the traceback and goes on
Unhandled == BOOLEAN

RemoveAt(seq, i) == SubSeq(seq, 1, i - 1) \o SubSeq(seq, i + 1, Len(seq))

(***************************************************************************)
(* MainWindow slots                                                        *)
(***************************************************************************)
\* logValue: one line "<currentFile> <value>" appended to ozone.log
logValue_shown(value) == Append(log, [file |-> currentFile, value |-> lcd])

logValue(value) == Append(log, [file |-> currentFile, value |-> value])

\* updateColor: the hue the colour widget is painted with
updateColor(hue) == scaleToHue(hue)

\* fittowindow -> scaleImage -> SelectableImage.scale: the label is resized
\* to the pixmap size times min(wfactor, hfactor)
fittowindow(isize, wsize) ==
    IF wsize[1] * isize[2] <= wsize[2] * isize[1]
    THEN <<wsize[1], RoundDiv(isize[2] * wsize[1], isize[1])>>
    ELSE <<RoundDiv(isize[1] * wsize[2], isize[2]), wsize[2]>>

(***************************************************************************)
(* CalculationThread                                                       *)
(***************************************************************************)
\* CalculationThread(arr): imgSize, lsize, origin, destination default to 0
WholeJob(file, a) ==
    [handler |-> "openf", file |-> file, st |-> "running", arr |-> a,
     imgSize |-> <<0, 0>>, lsize |-> <<0, 0>>,
     origin |-> <<0, 0>>, destination |-> <<0, 0>>, value |-> 0]

\* CalculationThread(arr, pixmap().size(), size(), origin, event.pos())
RegionJob(a, isize, ls, o, d) ==
    [handler |-> "release", file |-> "", st |-> "running", arr |-> a,
     imgSize |-> isize, lsize |-> ls,
     origin |-> o, destination |-> d, value |-> 0]

\* run(): computeAll when imgSize == 0, computeRegion otherwise
run(job) ==
    IF job.imgSize = <<0, 0>>
    THEN computeAll(job.arr)
    ELSE computeRegion(job.arr, job.origin, job.destination, job.imgSize, job.lsize)

\* run() ends by emitting calculationFinished(value): the emission is queued
\* to the GUI thread, where the dialog and the result slots live
ThreadEmit(i) ==
    /\ ~crashed
    /\ i \in DOMAIN threads
    /\ threads[i].st = "running"
    /\ ~run(threads[i]).raised
    /\ threads' = [threads EXCEPT ![i].st = "finished",
                                  ![i].value = run(threads[i]).value]
    /\ queue' = Append(queue, run(threads[i]).value)
    /\ UNCHANGED <<ui, log, crashed, conv>>

\* run() raises (int() of nan): nothing is emitted
ThreadRaise(i) ==
    /\ ~crashed
    /\ i \in DOMAIN threads
    /\ threads[i].st = "running"
    /\ run(threads[i]).raised
    /\ threads' = [threads EXCEPT ![i].st = "raised"]
    /\ \E abort \in Unhandled : crashed' = abort
    /\ UNCHANGED <<ui, queue, log, conv>>

(***************************************************************************)
(* SelectableImage and MainWindow handlers                                 *)
(***************************************************************************)
\* What a handler does once its progress.exec() has returned, given the
\* pointer value ptr the result slots left: setImage hides the rubber band
\* and openf goes on (lines 336-347); mouseReleaseEvent just returns.
HandlerReturns(job, wsize, ptr) ==
    IF job.handler = "openf"
    THEN /\ band' = [band EXCEPT !.shown = FALSE]
         /\ visible' = TRUE
         /\ pointer' = 0
         /\ lsize' = fittowindow(ImgSize(arr), wsize)
         /\ statusMsg' = <<"Opened", job.file>>
    ELSE /\ pointer' = ptr
         /\ UNCHANGED <<band, visible, lsize, statusMsg>>

\* openf up to a failing load: loadRaw without dcraw, loadImage with a null
\* image, or setImage on the null image of an undecodable RAW file.  The
\* failure branches call self.statusBar(), which a QLabel does not have, so
\* the handler is left by an exception before any message is shown.
OpenfFail(f) ==
    /\ UiFree
    /\ f \in Files
    /\ IsRaw(f) \/ Content(f) = NoImage
    /\ currentFile' = f
    /\ title' = f
    /\ swatch' = updateColor(0)
    /\ lcd' = 0
    /\ \E abort \in Unhandled : crashed' = abort
    /\ UNCHANGED <<pointer, statusMsg, visible, arr, lsize, origin, pressed,
                   band, threads, queue, log, conv>>

\* openf up to progress.exec() in setImage: the image is decoded and set,
\* the whole-image thread is started
OpenfLoad(f) ==
    /\ UiFree
    /\ f \in Files
    /\ Content(f) # NoImage
    /\ Len(log) < MaxLog
    /\ currentFile' = f
    /\ title' = f
    /\ swatch' = updateColor(0)
    /\ lcd' = 0
    /\ arr' = Content(f)
    /\ lsize' = ImgSize(Content(f))
    /\ threads' = Append(threads, WholeJob(f, Content(f)))
    /\ UNCHANGED <<pointer, statusMsg, visible, origin, pressed, band, queue,
                   log, crashed, conv>>

\* points of the label of size ls, and the points a drag can end at
Inside(ls) == {<<0, 0>>, <<ls[1] - 1, ls[2] - 1>>}

Reachable(ls) == Inside(ls) \cup {<<-1, 0>>, <<ls[1], ls[2] - 1>>}

mousePressEvent(p) ==
    /\ UiFree
    /\ visible
    /\ ~pressed
    /\ origin' = p
    /\ pressed' = TRUE
    /\ band' = [made |-> TRUE, shown |-> TRUE,
                rect |-> <<p[1], p[2], p[1] - 2, p[2] - 2>>]
    /\ UNCHANGED <<currentFile, title, lcd, swatch, pointer, statusMsg, visible,
                   arr, lsize, threads, queue, log, crashed, conv>>

\* QRect(origin, pos).normalized()
Normalized(o, p) ==
    <<IF p[1] < o[1] - 1 THEN p[1] ELSE o[1],
      IF p[2] < o[2] - 1 THEN p[2] ELSE o[2],
      IF p[1] < o[1] - 1 THEN o[1] ELSE p[1],
      IF p[2] < o[2] - 1 THEN o[2] ELSE p[2]>>

mouseMoveEvent(p) ==
    /\ UiFree
    /\ visible
    /\ pressed
    /\ band' = [band EXCEPT !.rect = Normalized(origin, p)]
    /\ UNCHANGED <<currentFile, title, lcd, swatch, pointer, statusMsg, visible,
                   arr, lsize, origin, pressed, threads, queue, log, crashed, conv>>

\* mouseReleaseEvent up to progress.exec(): the region thread is started
mouseReleaseEvent(p) ==
    /\ UiFree
    /\ visible
    /\ pressed
    /\ Len(log) < MaxLog
    /\ pressed' = FALSE
    /\ threads' = Append(threads, RegionJob(arr, ImgSize(arr), lsize, origin, p))
    /\ UNCHANGED <<currentFile, title, lcd, swatch, pointer, statusMsg, visible,
                   arr, lsize, origin, band, queue, log, crashed, conv>>

\* The GUI thread delivers a queued calculationFinished: progress.cancel
\* closes the dialog, hueCalculated runs lcd.display, updateColor,
\* updatePointer and logValue, and the handler that waited goes on.
Deliver(wsize) ==
    /\ ~crashed
    /\ queue # << >>
    /\ queue' = Tail(queue)
    /\ lcd' = Head(queue)
    /\ swatch' = updateColor(Head(queue))
    /\ log' = logValue(Head(queue))
    /\ LET done == {i \in DOMAIN threads : threads[i].st = "finished"}
       IN  IF done # {}
           THEN LET i == CHOOSE j \in done : \A k \in done : j <= k
                IN  /\ threads' = RemoveAt(threads, i)
                    /\ HandlerReturns(threads[i], wsize, Head(queue))
           ELSE /\ threads' = threads
                /\ pointer' = Head(queue)
                /\ UNCHANGED <<band, visible, lsize, statusMsg>>
    /\ UNCHANGED <<currentFile, title, arr, origin, pressed, crashed, conv>>

\* The user closes the progress dialog (Escape, the window's close button):
\* exec() returns and the handler goes on and returns, which destroys its
\* local CalculationThread; destroying a QThread that still runs aborts
\* the process.
Dismiss(i, wsize) ==
    /\ ~crashed
    /\ i \in DOMAIN threads
    /\ IF threads[i].st = "running"
       THEN /\ crashed' = TRUE
            /\ UNCHANGED <<threads, pointer, band, visible, lsize, statusMsg>>
       ELSE /\ crashed' = FALSE
            /\ threads' = RemoveAt(threads, i)
            /\ HandlerReturns(threads[i], wsize, pointer)
    /\ UNCHANGED <<currentFile, title, lcd, swatch, arr, origin, pressed,
                   queue, log, conv>>

Next ==
    \/ \E f \in Files : OpenfFail(f)
    \/ \E f \in Files : OpenfLoad(f)
    \/ \E p \in Inside(lsize) : mousePressEvent(p)
    \/ \E p \in Reachable(lsize) : mouseMoveEvent(p)
    \/ \E p \in Reachable(lsize) : mouseReleaseEvent(p)
    \/ \E i \in DOMAIN threads : ThreadEmit(i)
    \/ \E i \in DOMAIN threads : ThreadRaise(i)
    \/ \E wsize \in Viewports : Deliver(wsize)
    \/ \E i \in DOMAIN threads, wsize \in Viewports : Dismiss(i, wsize)

Spec == Init /\ [][Next]_vars

(***************************************************************************)
(* The conversion alone: a hue of 0..359 is taken through hueToScale and   *)
(* the result through scaleToHue.                                          *)
(***************************************************************************)
InitHue ==
    /\ currentFile = ""
    /\ title = ""
    /\ lcd = 0
    /\ swatch = QColorHue(255, 255, 255)
    /\ pointer = NoPointer
    /\ statusMsg = <<"", "">>
    /\ visible = FALSE
    /\ arr = NoImage
    /\ lsize = <<0, 0>>
    /\ origin = <<0, 0>>
    /\ pressed = FALSE
    /\ band = [made |-> FALSE, shown |-> FALSE, rect |-> <<0, 0, 0, 0>>]
    /\ threads = << >>
    /\ queue = << >>
    /\ log = << >>
    /\ crashed = FALSE
    /\ \E h \in 0..HueMax : conv = [pc |-> "hue", hue |-> h, scale |-> 0, back |-> 0]

ConvHueToScale ==
    /\ conv.pc = "hue"
    /\ conv' = [conv EXCEPT !.pc = "scale", !.scale = hueToScale(conv.hue)]
    /\ UNCHANGED <<ui, threads, queue, log, crashed>>

ConvScaleToHue ==
    /\ conv.pc = "scale"
    /\ conv' = [conv EXCEPT !.pc = "back", !.back = scaleToHue(conv.scale)]
    /\ UNCHANGED <<ui, threads, queue, log, crashed>>

NextHue == ConvHueToScale \/ ConvScaleToHue

SpecHue == InitHue /\ [][NextHue]_vars

(***************************************************************************)
(* Whole-image analysis of any image: the window right after its first     *)
(* openf, on a file holding one of TestImages.                             *)
(***************************************************************************)
TestFile == "test.png"

Palette == {Dark, White, Yellow, Gray, Green, Pale, Navy}

TestBands == [px : Palette, h : {1, 50, 99, 100}]

TestImages ==
    {[w |-> w, bands |-> b] :
        w \in {1, 2}, b \in UNION {[1..n -> TestBands] : n \in 1..MaxBands}}

InitAll ==
    /\ currentFile = TestFile
    /\ title = TestFile
    /\ lcd = 0
    /\ swatch = updateColor(0)
    /\ pointer = NoPointer
    /\ statusMsg = <<"", "">>
    /\ visible = FALSE
    /\ arr \in TestImages
    /\ lsize = ImgSize(arr)
    /\ origin = <<0, 0>>
    /\ pressed = FALSE
    /\ band = [made |-> FALSE, shown |-> FALSE, rect |-> <<0, 0, 0, 0>>]
    /\ threads = <<WholeJob(TestFile, arr)>>
    /\ queue = << >>
    /\ log = << >>
    /\ crashed = FALSE
    /\ conv = NoConv

NextAll ==
    \/ \E i \in DOMAIN threads : ThreadEmit(i)
    \/ \E i \in DOMAIN threads : ThreadRaise(i)
    \/ \E wsize \in Viewports : Deliver(wsize)
    \/ \E i \in DOMAIN threads, wsize \in Viewports : Dismiss(i, wsize)

SpecAll == InitAll /\ [][NextAll]_vars

(***************************************************************************)
(* Region analysis for any image size, displayed size, origin and          *)
(* destination: the window after a file was opened and analysed, with the  *)
(* mouse pressed at some point of the image.                               *)
(***************************************************************************)
RegionImages ==
    {[w |-> w, bands |-> <<[px |-> c, h |-> h]>>] :
        w \in 1..MaxImg, h \in 1..MaxImg, c \in {Dark, Gray}}

\* the points of a label of size ls
Points(ls) == (0..(ls[1] - 1)) \X (0..(ls[2] - 1))

\* where a drag that started inside the label can end: the mouse is grabbed,
\* so positions outside the label are delivered too
Drag(ls) == ((-MaxOut)..(ls[1] - 1 + MaxOut)) \X ((-MaxOut)..(ls[2] - 1 + MaxOut))

InitRegion ==
    /\ currentFile = TestFile
    /\ title = TestFile
    /\ arr \in RegionImages
    /\ lcd = computeAll(arr).value
    /\ swatch = updateColor(lcd)
    /\ pointer = 0
    /\ statusMsg = <<"Opened", TestFile>>
    /\ visible = TRUE
    /\ lsize \in (1..MaxDisp) \X (1..MaxDisp)
    /\ origin \in Points(lsize)
    /\ pressed = TRUE
    /\ band = [made |-> TRUE, shown |-> TRUE,
               rect |-> <<origin[1], origin[2], origin[1] - 2, origin[2] - 2>>]
    /\ threads = << >>
    /\ queue = << >>
    /\ log = <<[file |-> TestFile, value |-> lcd]>>
    /\ crashed = FALSE
    /\ conv = NoConv

NextRegion ==
    \/ \E p \in Drag(lsize) : mouseReleaseEvent(p)
    \/ \E i \in DOMAIN threads : ThreadEmit(i)
    \/ \E i \in DOMAIN threads : ThreadRaise(i)
    \/ \E wsize \in Viewports : Deliver(wsize)
    \/ \E i \in DOMAIN threads, wsize \in Viewports : Dismiss(i, wsize)

SpecRegion == InitRegion /\ [][NextRegion]_vars

(***************************************************************************)
(* Properties                                                              *)
(***************************************************************************)
\* the number of pixels of img whose maximum channel is below t
RECURSIVE CandidatesFrom(_, _, _)
CandidatesFrom(img, t, i) ==
    IF i > Len(img.bands) THEN 0
    ELSE (IF maxc(img.bands[i].px) < t THEN img.w * img.bands[i].h ELSE 0)
         + CandidatesFrom(img, t, i + 1)

Candidates(img, t) == CandidatesFrom(img, t, 1)

WholeDone == {i \in DOMAIN threads :
                 threads[i].handler = "openf" /\ threads[i].st \in {"finished", "raised"}}

Emitted == {i \in DOMAIN threads : threads[i].st = "finished"}

\* C1: every scale value hueToScale yields for a hue of 0..359, and every
\* scale value an analysis emits, is in 0..180.
C1_ScaleInRange ==
    /\ conv.pc \in {"scale", "back"} => conv.scale \in 0..180
    /\ \A i \in Emitted : threads[i].value \in 0..180
    /\ \A k \in DOMAIN queue : queue[k] \in 0..180

\* C2: for every hue h in 0..60 or 240..359, scaleToHue(hueToScale(h)) = h.
C2_RoundTrip ==
    (conv.pc = "back" /\ conv.hue \in (0..60) \cup (240..359))
        => conv.back = conv.hue

C2_Witness == conv.pc = "back" /\ conv.hue = 240 /\ conv.scale = 180

\* C3: an analysis whose mean RGB triple has three equal channels extracts
\* hue 0 and emits the scale value 60.
C3_GrayGivesSixty ==
    \A i \in Emitted :
        LET m == run(threads[i]).mean
        IN  (m[1] = m[2] /\ m[2] = m[3])
                => QColorHue(m[1], m[2], m[3]) = 0 /\ threads[i].value = 60

\* C4: in whole-image mode each channel mean is the truncated mean of the
\* channel over exactly the candidate pixels (sum over the candidates,
\* divided by their number), so it lies in 0..255.
C4_MeanOverCandidates ==
    \A i \in Emitted :
        threads[i].handler = "openf" =>
            LET img == threads[i].arr
                t == ThresholdUsed(img)
                m == run(threads[i]).mean
            IN  \A c \in 1..3 :
                    /\ Candidates(img, t) > 0
                    /\ m[c] = SumWhere(img, t, c) \div Candidates(img, t)
                    /\ m[c] \in 0..255

\* C5: computeAll relaxes the threshold exactly when fewer than 100 pixels
\* of the image have their maximum channel below 150.
C5_RelaxedIffFewDark ==
    \A i \in WholeDone :
        Relaxed(threads[i].arr)
            <=> Candidates(threads[i].arr, DarkThreshold) < MinPixels

\* C6: a whole-image analysis in which no pixel qualifies even below 250
\* never divides by its zero candidate count (it does not end in the
\* exception of an undefined mean).
C6_NoDivisionByZero ==
    \A i \in DOMAIN threads :
        (threads[i].handler = "openf"
            /\ Candidates(threads[i].arr, BrightThreshold) = 0)
                => threads[i].st # "raised"

\* the buffer column (row) a displayed column (row) x shows, for a buffer
\* of n columns displayed over d
Shown(x, n, d) == (x * n) \div d

\* C7 for one region thread: its rectangle is normalized and non-empty,
\* lies inside the buffer, and holds every buffer pixel the selected
\* display rectangle shows.
RegionCovers(job) ==
    LET r == RegionRect(job.origin, job.destination, job.imgSize, job.lsize)
        xs == (Min2(job.origin[1], job.destination[1])
                  .. Max2(job.origin[1], job.destination[1]))
                 \cap (0..(job.lsize[1] - 1))
        ys == (Min2(job.origin[2], job.destination[2])
                  .. Max2(job.origin[2], job.destination[2]))
                 \cap (0..(job.lsize[2] - 1))
    IN  /\ r.xo < r.xd
        /\ r.yo < r.yd
        /\ 0 <= r.xo
        /\ r.xd <= job.imgSize[1]
        /\ 0 <= r.yo
        /\ r.yd <= job.imgSize[2]
        /\ \A x \in xs : Shown(x, job.imgSize[1], job.lsize[1]) \in r.xo..(r.xd - 1)
        /\ \A y \in ys : Shown(y, job.imgSize[2], job.lsize[2]) \in r.yo..(r.yd - 1)

\* C7: for every origin and destination of a selection and every image and
\* displayed size, the rectangle computeRegion computes is normalized,
\* non-empty, inside the image buffer and covers the selected pixels.
C7_RegionInsideBuffer ==
    \A i \in DOMAIN threads :
        threads[i].handler = "release" => RegionCovers(threads[i])

Running == {i \in DOMAIN threads : threads[i].st = "running"}

\* C8: at most one CalculationThread is running at any time.
C8_AtMostOneRunning == Cardinality(Running) <= 1

C8_Witness ==
    /\ Len(log) >= 1
    /\ \E i \in Running : threads[i].handler = "release"

\* C9: the log and the display take a result only from a completed
\* computation: a line is appended only by delivering a queued
\* calculationFinished, one line per emission, holding the emitted value;
\* an emission is the value run() computed; the readout and the swatch
\* change only to their reset value or to a delivered value; an analysis
\* that raises emits nothing, and no emission is lost to an abort.
C9_LogAfterCompletion ==
    /\ [](queue # << >> => ~crashed)
    /\ [][log' # log =>
            /\ queue # << >>
            /\ queue' = Tail(queue)
            /\ log' = Append(log, [file |-> currentFile, value |-> Head(queue)])]_vars
    /\ [][(queue' # queue /\ log' = log) =>
            \E i \in Running :
                /\ ~run(threads[i]).raised
                /\ threads'[i].st = "finished"
                /\ queue' = Append(queue, run(threads[i]).value)]_vars
    /\ [][lcd' # lcd => (lcd' = 0 \/ (queue # << >> /\ lcd' = Head(queue)))]_vars
    /\ [][swatch' # swatch =>
            \/ swatch' = scaleToHue(0)
            \/ queue # << >> /\ swatch' = scaleToHue(Head(queue))]_vars

C9_Witness ==
    /\ Len(log) = 2
    /\ log[2].value = lcd
    /\ log[2].value # log[1].value
    /\ queue = << >>
    /\ threads = << >>
    /\ ~crashed

\* C10: a failed open is reported without crashing and leaves the current
\* file path, the readout, the swatch and the image buffer as they were.
C10_FailedOpenKeepsState ==
    [][(\E f \in Files : OpenfFail(f)) =>
            /\ ~crashed'
            /\ statusMsg'[1] = "Cannot open"
            /\ currentFile' = currentFile
            /\ lcd' = lcd
            /\ swatch' = swatch
            /\ arr' = arr]_vars

\* C11: when the delivery of a result leaves no computation outstanding
\* (the analysis of a file open or of a region selection has succeeded),
\* the readout shows the computed value v, the swatch has the hue
\* scaleToHue(v) and the scale widget's pointer is at v.
C11_OutputsAgree ==
    [][((\E wsize \in Viewports : Deliver(wsize))
            /\ threads' = << >> /\ queue' = << >>) =>
            /\ lcd' = Head(queue)
            /\ swatch' = scaleToHue(Head(queue))
            /\ pointer' = Head(queue)]_vars

=============================================================================
